---- MODULE Spec2Model ----
(***************************************************************************)
(* Model of guild_manager.py: the lazily computed, cached membership model *)
(* of the public source (class GW2MISTS_GUILD), its member-profile fan-out *)
(* (amember_profiles), the credential check and the class-level request    *)
(* headers of the authoritative source (GW2_API_KEY, GW2_GUILD).           *)
(*                                                                         *)
(* Python values are encoded as follows.                                   *)
(*   None            the empty tuple <<>>; any other value v is <<v>>      *)
(*   frozenset       a set                                                 *)
(*   dict            a sequence of <<key, value>> pairs in insertion order *)
(*   list            a sequence                                            *)
(* A property is an operator from the heap h = [obj, net] (the instance's  *)
(* fields, the network's counters) and the network's answers `in` to an    *)
(* outcome [h, exc, val]: the heap afterwards, the exception raised (None  *)
(* when the property returned) and the value returned.                     *)
(***************************************************************************)
EXTENDS Integers, Sequences, FiniteSets, TLC

VARIABLES
    gw2mists,   \* the fields of one GW2MISTS_GUILD instance
    net,        \* fetches of that instance: succeeded and failed, per kind
    exc,        \* the exception the last read raised (None: it returned), and by which property
    stable,     \* whether every read so far kept to the cache discipline
    reread,     \* whether some read found its property's field populated
    pc,         \* where the running members_profiles access is
    tasks,      \* the tasks of the running asyncio.gather, in task order
    gw2,        \* the GW2_GUILD instances constructed, per slot
    headers,    \* the class attributes GW2_API_KEY.API_HEADERS and GW2_GUILD.API_HEADERS
    requests,   \* the requests issued to api.guildwars2.com
    run         \* the run of report(): its settings, where it is, the reports made so far

vars == <<gw2mists, net, exc, stable, reread, pc, tasks, gw2, headers, requests, run>>

None == <<>>
Some(v) == <<v>>

\* no run of report() is under way
NoRun ==
    [ only |-> "none", alliance_settings |-> "none", is_alliance |-> FALSE,
      guilds |-> <<>>, pc |-> "none", todo |-> <<>>, log |-> <<>> ]

(***************************************************************************)
(* Bounds of the model.                                                    *)
(***************************************************************************)
\* members of a guild profile in the accessor specification
MaxMembers == 2
\* members of a guild profile in the fan-out specification
MaxBatch == 3
\* entries of members_profiles in the leaderboard specification
MaxProfiles == 3
\* failed fetches per instance
MaxFailures == 1
\* members of a roster in a run of report()
MaxRunMembers == 1
\* guilds of the alliance
MaxGuilds == 2
\* simultaneous connections of a session's TCPConnector: 50 in the source
\* (line 20), scaled so that a batch of MaxBatch requests exceeds it
OPEN_CONNECTIONS_LIMIT == 2
\* entries of a leaderboard: 10 in the source (line 22), scaled so that
\* MaxProfiles entries exceed it
TOP_STATS_MEMBERS == 2

INACTIVE_PLAYER_KILLS == 1000
MEMBER_STATS_LIST == <<"kills", "captured_targets", "defended_targets", "killed_dolyaks">>

(***************************************************************************)
(* The data the public API answers with.                                   *)
(***************************************************************************)
AllNames == <<"A", "B", "C", "D", "E">>
NamesUpTo(n) == {AllNames[i] : i \in 1..n}
TeamIds == {7, 9}

\* x in profile["member"]: name is position-determined, hence unique in a profile
MemberRecords(i) == [name : {AllNames[i]}, registered : {0, 1}, team_id : TeamIds]

RECURSIVE MemberLists(_)
MemberLists(n) ==
    IF n = 0 THEN {<<>>}
    ELSE {Append(l, x) : l \in MemberLists(n - 1), x \in MemberRecords(n)}

\* GET /guilds/{name}: a roster of up to n members; a hidden roster
\* (display_roster false) comes with or without the "member" key
GuildProfiles(n) ==
    LET lists == UNION {MemberLists(k) : k \in 0..n} IN
    [display_roster : {TRUE}, team_id : TeamIds, member : {Some(l) : l \in lists}]
    \cup
    [display_roster : {FALSE}, team_id : TeamIds,
     member : {None} \cup {Some(l) : l \in MemberLists(0) \cup MemberLists(1)}]

\* profile["stats"] of GET /profile/{name}
StatRecords ==
    { [kills |-> 999,  captured_targets |-> 5, defended_targets |-> 0, killed_dolyaks |-> 3],
      [kills |-> 1000, captured_targets |-> 5, defended_targets |-> 2, killed_dolyaks |-> 1],
      [kills |-> 1000, captured_targets |-> 7, defended_targets |-> 2, killed_dolyaks |-> 0] }

Range(s) == {s[i] : i \in 1..Len(s)}

Perms(S) ==
    {p \in [1..Cardinality(S) -> S] : \A i, j \in 1..Cardinality(S) : p[i] = p[j] => i = j}

\* the elements of sequence s that are in set S, in the order of s
RECURSIVE Restrict(_, _)
Restrict(s, S) ==
    IF s = <<>> THEN <<>>
    ELSE IF Head(s) \in S THEN <<Head(s)>> \o Restrict(Tail(s), S)
    ELSE Restrict(Tail(s), S)

(***************************************************************************)
(* Outcomes of a property access.                                          *)
(***************************************************************************)
Ok(h, v) == [h |-> h, exc |-> None, val |-> v]
Raise(h, e) == [h |-> h, exc |-> Some(e), val |-> None]

\* GW2MISTS_GUILD.__init__
NewGuild ==
    [ _profile |-> None, _unregistered_members |-> None, _team_id |-> None,
      _wrongteam_members |-> None, _registered_members |-> None,
      _currentmatch_members |-> None, _members_profiles |-> None,
      _inactive_members |-> None, _members |-> None, _top_week |-> None ]

NoFetches ==
    [guild_ok |-> 0, guild_fail |-> 0, batch_ok |-> 0, batch_fail |-> 0, gw2_fail |-> 0]

(***************************************************************************)
(* dict and sorted.                                                        *)
(***************************************************************************)
Keys(d) == {d[i][1] : i \in 1..Len(d)}

\* d[k] = v: an existing key keeps its position
DictSet(d, k, v) ==
    IF k \in Keys(d)
    THEN [i \in 1..Len(d) |-> IF d[i][1] = k THEN <<k, v>> ELSE d[i]]
    ELSE Append(d, <<k, v>>)

\* {k: v for k, v in pairs}
RECURSIVE DictOf(_)
DictOf(pairs) ==
    IF pairs = <<>> THEN <<>>
    ELSE DictSet(DictOf(SubSeq(pairs, 1, Len(pairs) - 1)),
                 pairs[Len(pairs)][1], pairs[Len(pairs)][2])

DictGet(d, k) == d[CHOOSE i \in 1..Len(d) : d[i][1] = k][2]

Min(a, b) == IF a <= b THEN a ELSE b

\* variant of SortedInsert: e goes before the items that compare equal to it
SortedInsert_unstable(s, e, reverse) ==
    LET k == Cardinality({i \in 1..Len(s) :
                 IF reverse THEN s[i][2] > e[2] ELSE s[i][2] < e[2]})
    IN SubSeq(s, 1, k) \o <<e>> \o SubSeq(s, k + 1, Len(s))

\* one step of a stable sort by item[2]: e goes behind every item that does
\* not sort after it
SortedInsert(s, e, reverse) ==
    LET k == Cardinality({i \in 1..Len(s) :
                 IF reverse THEN s[i][2] >= e[2] ELSE s[i][2] <= e[2]})
    IN SubSeq(s, 1, k) \o <<e>> \o SubSeq(s, k + 1, Len(s))

\* sorted(items, key=lambda prof: prof[1], reverse=reverse)
RECURSIVE Sorted(_, _)
Sorted(items, reverse) ==
    IF items = <<>> THEN <<>>
    ELSE SortedInsert(Sorted(SubSeq(items, 1, Len(items) - 1), reverse),
                      items[Len(items)], reverse)

(***************************************************************************)
(* The network of the public source. `in` holds what the network answers  *)
(* during one property access: in.guild, the answer to GET /guilds/{name}  *)
(* (None: the request fails, raise_for_status or a connection error);      *)
(* in.resp[name], the answer to GET /profile/{name} (None: it fails);      *)
(* in.order, the iteration order of the frozenset of names.                *)
(***************************************************************************)
aguild_profile(h, in) ==
    IF in.guild = None
    THEN Raise([h EXCEPT !.net.guild_fail = @ + 1], "ClientError")
    ELSE Ok([h EXCEPT !.net.guild_ok = @ + 1], in.guild[1])

\* the profile of a member whose request succeeded
amember_profile(name, stats) == [name |-> name, stats |-> stats]

\* asyncio.gather(*tasks) on tasks whose outcomes are known: the list of the
\* results in task order, or the failure of a task
amember_profiles(h, names, in) ==
    LET order == Restrict(in.order, names) IN
    IF \E i \in 1..Len(order) : in.resp[order[i]] = None
    THEN Raise([h EXCEPT !.net.batch_fail = @ + 1], "ClientError")
    ELSE Ok([h EXCEPT !.net.batch_ok = @ + 1],
            [i \in 1..Len(order) |-> amember_profile(order[i], in.resp[order[i]][1])])

(***************************************************************************)
(* The properties of GW2MISTS_GUILD.                                       *)
(***************************************************************************)
\* variant of profile: the answer is returned and not kept
profile_uncached(h, in) ==
    IF h.obj._profile = None
    THEN aguild_profile(h, in)
    ELSE Ok(h, h.obj._profile[1])

profile(h, in) ==
    IF h.obj._profile = None
    THEN LET r == aguild_profile(h, in) IN
         IF r.exc # None THEN r
         ELSE Ok([r.h EXCEPT !.obj._profile = Some(r.val)], r.val)
    ELSE Ok(h, h.obj._profile[1])

\* self.profile["member"]: KeyError when the key is absent
profile_member(h, in) ==
    LET p == profile(h, in) IN
    IF p.exc # None THEN p
    ELSE IF p.val.member = None THEN Raise(p.h, "KeyError")
    ELSE Ok(p.h, p.val.member[1])

\* variants of unregistered_members: without the filter on the registration
\* flag; with a visibility check before the derivation
unregistered_members_unfiltered(h, in) ==
    IF h.obj._unregistered_members = None
    THEN LET m == profile_member(h, in) IN
         IF m.exc # None THEN m
         ELSE LET v == {x.name : x \in Range(m.val)} IN
              Ok([m.h EXCEPT !.obj._unregistered_members = Some(v)], v)
    ELSE Ok(h, h.obj._unregistered_members[1])

unregistered_members_checked(h, in) ==
    IF h.obj._unregistered_members = None
    THEN LET p == profile(h, in) IN
         IF p.exc # None THEN p
         ELSE IF ~p.val.display_roster THEN Raise(p.h, "VisibilityError")
         ELSE LET v == {x.name : x \in {y \in Range(p.val.member[1]) : y.registered = 0}} IN
              Ok([p.h EXCEPT !.obj._unregistered_members = Some(v)], v)
    ELSE Ok(h, h.obj._unregistered_members[1])

unregistered_members(h, in) ==
    IF h.obj._unregistered_members = None
    THEN LET m == profile_member(h, in) IN
         IF m.exc # None THEN m
         ELSE LET v == {x.name : x \in {y \in Range(m.val) : y.registered = 0}} IN
              Ok([m.h EXCEPT !.obj._unregistered_members = Some(v)], v)
    ELSE Ok(h, h.obj._unregistered_members[1])

members(h, in) ==
    IF h.obj._members = None
    THEN LET m == profile_member(h, in) IN
         IF m.exc # None THEN m
         ELSE LET v == {x.name : x \in Range(m.val)} IN
              Ok([m.h EXCEPT !.obj._members = Some(v)], v)
    ELSE Ok(h, h.obj._members[1])

team_id(h, in) ==
    IF h.obj._team_id = None
    THEN LET p == profile(h, in) IN
         IF p.exc # None THEN p
         ELSE Ok([p.h EXCEPT !.obj._team_id = Some(p.val.team_id)], p.val.team_id)
    ELSE Ok(h, h.obj._team_id[1])

\* variant of wrongteam_members: the unregistered members are not taken out
wrongteam_members_all(h, in) ==
    IF h.obj._wrongteam_members = None
    THEN LET m == profile_member(h, in) IN
         IF m.exc # None THEN m
         ELSE LET t == IF m.val = <<>> THEN Ok(m.h, 0) ELSE team_id(m.h, in)
                  w == {x.name : x \in {y \in Range(m.val) : y.team_id # t.val}}
                  u == unregistered_members(t.h, in)
              IN Ok([u.h EXCEPT !.obj._wrongteam_members = Some(w)], w)
    ELSE Ok(h, h.obj._wrongteam_members[1])

\* the set comprehension reads self.team_id once per member, so an empty
\* roster leaves _team_id alone; the profile is cached by then
wrongteam_members(h, in) ==
    IF h.obj._wrongteam_members = None
    THEN LET m == profile_member(h, in) IN
         IF m.exc # None THEN m
         ELSE LET t == IF m.val = <<>> THEN Ok(m.h, 0) ELSE team_id(m.h, in)
                  w == {x.name : x \in {y \in Range(m.val) : y.team_id # t.val}}
                  u == unregistered_members(t.h, in)
                  v == w \ u.val
              IN Ok([u.h EXCEPT !.obj._wrongteam_members = Some(v)], v)
    ELSE Ok(h, h.obj._wrongteam_members[1])

registered_members(h, in) ==
    IF h.obj._registered_members = None
    THEN LET m == profile_member(h, in) IN
         IF m.exc # None THEN m
         ELSE LET v == {x.name : x \in {y \in Range(m.val) : y.registered = 1}} IN
              Ok([m.h EXCEPT !.obj._registered_members = Some(v)], v)
    ELSE Ok(h, h.obj._registered_members[1])

\* variant of currentmatch_members: the members on the wrong team are left in
currentmatch_members_all(h, in) ==
    IF h.obj._currentmatch_members = None
    THEN LET r == registered_members(h, in) IN
         IF r.exc # None THEN r
         ELSE LET w == wrongteam_members(r.h, in)
                  v == r.val
              IN Ok([w.h EXCEPT !.obj._currentmatch_members = Some(v)], v)
    ELSE Ok(h, h.obj._currentmatch_members[1])

currentmatch_members(h, in) ==
    IF h.obj._currentmatch_members = None
    THEN LET r == registered_members(h, in) IN
         IF r.exc # None THEN r
         ELSE LET w == wrongteam_members(r.h, in)
                  v == r.val \ w.val
              IN Ok([w.h EXCEPT !.obj._currentmatch_members = Some(v)], v)
    ELSE Ok(h, h.obj._currentmatch_members[1])

\* {x["name"]: x for x in asyncio.run(self.amember_profiles(...))}
members_profiles_dict(results) ==
    DictOf([i \in 1..Len(results) |-> <<results[i].name, results[i]>>])

members_profiles(h, in) ==
    IF h.obj._members_profiles = None
    THEN LET r == registered_members(h, in) IN
         IF r.exc # None THEN r
         ELSE LET b == amember_profiles(r.h, r.val, in) IN
              IF b.exc # None THEN b
              ELSE LET v == members_profiles_dict(b.val) IN
                   Ok([b.h EXCEPT !.obj._members_profiles = Some(v)], v)
    ELSE Ok(h, h.obj._members_profiles[1])

\* the entries of d that satisfy the filter, as name: {"kills": kills}
RECURSIVE inactive_dict(_)
inactive_dict(d) ==
    IF d = <<>> THEN <<>>
    ELSE LET rest == inactive_dict(SubSeq(d, 1, Len(d) - 1))
             e == d[Len(d)]
             kills == e[2].stats["kills"]
         IN IF kills < INACTIVE_PLAYER_KILLS
            THEN DictSet(rest, e[1], [kills |-> kills])
            ELSE rest

inactive_members(h, in) ==
    IF h.obj._inactive_members = None
    THEN LET m == members_profiles(h, in) IN
         IF m.exc # None THEN m
         ELSE LET v == inactive_dict(m.val) IN
              Ok([m.h EXCEPT !.obj._inactive_members = Some(v)], v)
    ELSE Ok(h, h.obj._inactive_members[1])

_sorted_members(h, in, stat, reverse) ==
    LET m == members_profiles(h, in) IN
    IF m.exc # None THEN m
    ELSE LET items == [i \in 1..Len(m.val) |-> <<m.val[i][1], m.val[i][2].stats[stat]>>]
             s == Sorted(items, reverse)
         IN Ok(m.h, SubSeq(s, 1, Min(Len(s), TOP_STATS_MEMBERS)))

\* the loop of top_week from its i-th statistic on; self._top_week is the
\* dict filled so far, and stays so when _sorted_members raises
RECURSIVE top_week_loop(_, _, _)
top_week_loop(h, in, i) ==
    IF i > Len(MEMBER_STATS_LIST) THEN Ok(h, h.obj._top_week[1])
    ELSE LET s == _sorted_members(h, in, MEMBER_STATS_LIST[i], TRUE) IN
         IF s.exc # None THEN s
         ELSE top_week_loop(
                  [s.h EXCEPT !.obj._top_week =
                      Some(DictSet(s.h.obj._top_week[1], MEMBER_STATS_LIST[i], s.val))],
                  in, i + 1)

top_week(h, in) ==
    IF h.obj._top_week = None
    THEN top_week_loop([h EXCEPT !.obj._top_week = Some(<<>>)], in, 1)
    ELSE Ok(h, h.obj._top_week[1])

(***************************************************************************)
(* The accessor specification: one GW2MISTS_GUILD instance, its properties *)
(* read in any order, each read one action.                                *)
(***************************************************************************)
Properties ==
    { "profile", "unregistered_members", "members", "team_id", "wrongteam_members",
      "registered_members", "currentmatch_members", "members_profiles",
      "inactive_members", "top_week" }

\* the properties whose first read runs the member-profile batch
BatchProperties == {"members_profiles", "inactive_members", "top_week"}

\* the field that caches property a
Field(a) == "_" \o a

\* a slot no GW2_GUILD instance was constructed in
NoSource ==
    [ status |-> "none", api_key |-> None, _data |-> None, introspections |-> 0,
      error |-> None, _profile |-> None, _info |-> None, _ranks |-> None,
      _members |-> None, _wvw_members |-> None ]

\* the gw2 instances, before any is constructed
NoSources == [s \in {"guild", "alliance"} |-> NoSource]
\* the class dicts before any construction: no "authorization" entry
NoHeaders == [GW2_API_KEY |-> None, GW2_GUILD |-> None]

\* the stats GET /profile/{name} answers with in the accessor specification
ServerStats(name) ==
    CHOOSE s \in StatRecords :
        s.kills = IF name \in {AllNames[i] : i \in {1, 3, 5}} THEN 999 ELSE 1000

\* what the network may answer during a read of property a of an instance
\* with a roster of up to n members
Inputs(a, n) ==
    [ guild : IF gw2mists._profile = None
              THEN {None} \cup {Some(p) : p \in GuildProfiles(n)}
              ELSE {None},
      resp  : IF a \in BatchProperties /\ gw2mists._members_profiles = None
              THEN [NamesUpTo(n) -> {None}] \cup
                   {[x \in NamesUpTo(n) |-> IF x \in F THEN None ELSE Some(ServerStats(x))] :
                       F \in SUBSET NamesUpTo(n)}
              ELSE {[x \in NamesUpTo(n) |-> None]},
      order : IF a \in BatchProperties /\ gw2mists._members_profiles = None
              THEN Perms(NamesUpTo(n))
              ELSE {[i \in 1..n |-> AllNames[i]]} ]

\* the instance and the fetch counters, as the heap of the operators above
Here == [obj |-> gw2mists, net |-> net]

\* a read of property a, whose outcome on heap h with answers in is
\* Get(h, in); n bounds the roster the server answers with.
\* stable stays true as long as every read of a populated field
\* returns that field's value, fetches nothing and changes no field, every
\* value returned is the one left in the property's field, and no populated
\* field changes.
Access(a, Get(_, _), n) ==
    \E in \in Inputs(a, n) :
    LET h == Here
        r == Get(h, in)
        hit == gw2mists[Field(a)] # None
    IN
    /\ r.h.net.guild_fail + r.h.net.batch_fail <= MaxFailures
    /\ gw2mists' = r.h.obj
    /\ net' = r.h.net
    /\ exc' = IF r.exc = None THEN None ELSE Some([acc |-> a, kind |-> r.exc[1]])
    /\ reread' = (reread \/ hit)
    /\ stable' = ( /\ stable
                   /\ hit => r.exc = None /\ Some(r.val) = gw2mists[Field(a)] /\ r.h = h
                   /\ r.exc = None => Some(r.val) = r.h.obj[Field(a)]
                   /\ \A f \in DOMAIN gw2mists :
                          gw2mists[f] # None => r.h.obj[f] = gw2mists[f] )
    /\ UNCHANGED <<pc, tasks, gw2, headers, requests, run>>

Get_profile == Access("profile", profile, MaxMembers)
Get_unregistered_members == Access("unregistered_members", unregistered_members, MaxMembers)
Get_members == Access("members", members, MaxMembers)
Get_team_id == Access("team_id", team_id, MaxMembers)
Get_wrongteam_members == Access("wrongteam_members", wrongteam_members, MaxMembers)
Get_registered_members == Access("registered_members", registered_members, MaxMembers)
Get_currentmatch_members == Access("currentmatch_members", currentmatch_members, MaxMembers)
Get_members_profiles == Access("members_profiles", members_profiles, MaxMembers)
Get_inactive_members == Access("inactive_members", inactive_members, MaxMembers)
Get_top_week == Access("top_week", top_week, MaxMembers)

Init ==
    /\ gw2mists = NewGuild
    /\ net = NoFetches
    /\ exc = None
    /\ reread = FALSE
    /\ stable = TRUE
    /\ pc = "idle"
    /\ tasks = <<>>
    /\ gw2 = NoSources
    /\ headers = NoHeaders
    /\ requests = {}
    /\ run = NoRun

Next ==
    \/ Get_profile
    \/ Get_unregistered_members
    \/ Get_members
    \/ Get_team_id
    \/ Get_wrongteam_members
    \/ Get_registered_members
    \/ Get_currentmatch_members
    \/ Get_members_profiles
    \/ Get_inactive_members
    \/ Get_top_week

Spec == Init /\ [][Next]_vars

(***************************************************************************)
(* The fan-out specification: the first read of members_profiles, with the *)
(* tasks of asyncio.gather taking their steps one at a time. The instance  *)
(* has read registered_members before; the roster is visible.              *)
(***************************************************************************)
\* the rosters the instance may have cached
BatchProfiles ==
    {p \in GuildProfiles(MaxBatch) :
        /\ p.display_roster /\ p.team_id = 7
        /\ \A x \in Range(p.member[1]) : x.team_id = 7}

\* answers of a read that fetches nothing
NoAnswers ==
    [guild |-> None, resp |-> [x \in NamesUpTo(MaxBatch) |-> None],
     order |-> [i \in 1..MaxBatch |-> AllNames[i]]]

InitBatch ==
    /\ \E p \in BatchProfiles :
           gw2mists = registered_members(
                          [obj |-> [NewGuild EXCEPT !._profile = Some(p)], net |-> NoFetches],
                          NoAnswers).h.obj
    /\ net = [NoFetches EXCEPT !.guild_ok = 1]
    /\ exc = None
    /\ stable = TRUE
    /\ reread = FALSE
    /\ pc = "idle"
    /\ tasks = <<>>
    /\ gw2 = NoSources
    /\ headers = NoHeaders
    /\ requests = {}
    /\ run = NoRun

\* the connections of the session's connector that are in use
Connected == {i \in 1..Len(tasks) : tasks[i].state = "connected"}

\* members_profiles, up to the first wait of asyncio.run: registered_members is
\* read, amember_profiles makes one task per name in the frozenset's order, and
\* the tasks start in that order, each taking a connection while one is free
Begin_members_profiles ==
    /\ pc = "idle"
    /\ gw2mists._members_profiles = None
    /\ LET r == registered_members([obj |-> gw2mists, net |-> net], NoAnswers) IN
       \E order \in Perms(r.val) :
           tasks' = [i \in 1..Len(order) |->
                        [name |-> order[i],
                         state |-> IF i <= OPEN_CONNECTIONS_LIMIT
                                   THEN "connected" ELSE "waiting",
                         issued |-> i <= OPEN_CONNECTIONS_LIMIT, result |-> None]]
    /\ pc' = "gather"
    /\ exc' = None
    /\ UNCHANGED <<gw2mists, net, stable, reread, gw2, headers, requests, run>>

\* variant of Connect: the connector's limit is not applied
Connect_unlimited(i) ==
    /\ pc = "gather"
    /\ tasks[i].state = "waiting"
    /\ tasks' = [tasks EXCEPT ![i].state = "connected", ![i].issued = TRUE]
    /\ UNCHANGED <<gw2mists, net, exc, stable, reread, pc, gw2, headers, requests, run>>

\* session.get of a waiting task i gets a connection that was released
Connect(i) ==
    /\ pc = "gather"
    /\ tasks[i].state = "waiting"
    /\ Cardinality(Connected) < OPEN_CONNECTIONS_LIMIT
    /\ tasks' = [tasks EXCEPT ![i].state = "connected", ![i].issued = TRUE]
    /\ UNCHANGED <<gw2mists, net, exc, stable, reread, pc, gw2, headers, requests, run>>

\* amember_profile of task i returns: the answer is read, the connection released
Respond(i) ==
    /\ pc = "gather"
    /\ tasks[i].state = "connected"
    /\ \E s \in StatRecords :
           tasks' = [tasks EXCEPT ![i].state = "done",
                                  ![i].result = Some(amember_profile(tasks[i].name, s))]
    /\ UNCHANGED <<gw2mists, net, exc, stable, reread, pc, gw2, headers, requests, run>>

\* the request of task i fails (raise_for_status, a connection error)
Fail(i) ==
    /\ pc = "gather"
    /\ tasks[i].state = "connected"
    /\ net.batch_fail < MaxFailures
    /\ tasks' = [tasks EXCEPT ![i].state = "failed"]
    /\ UNCHANGED <<gw2mists, net, exc, stable, reread, pc, gw2, headers, requests, run>>

\* variant of GatherRaise: the results of the tasks that are done are kept
GatherRaise_partial ==
    /\ pc = "gather"
    /\ \E i \in 1..Len(tasks) : tasks[i].state = "failed"
    /\ tasks' = [i \in 1..Len(tasks) |->
                    IF tasks[i].state \in {"waiting", "connected"}
                    THEN [tasks[i] EXCEPT !.state = "cancelled"]
                    ELSE tasks[i]]
    /\ gw2mists' = [gw2mists EXCEPT !._members_profiles =
           Some(members_profiles_dict(
                    LET done == Restrict([i \in 1..Len(tasks) |-> i],
                                         {i \in 1..Len(tasks) : tasks[i].state = "done"})
                    IN [k \in 1..Len(done) |-> tasks[done[k]].result[1]]))]
    /\ net' = [net EXCEPT !.batch_fail = @ + 1]
    /\ exc' = None
    /\ pc' = "idle"
    /\ UNCHANGED <<stable, reread, gw2, headers, requests, run>>

\* gather raises the failure of a task to amember_profiles: the session closes,
\* asyncio.run cancels the tasks left, and members_profiles raises with its
\* field as it was
GatherRaise ==
    /\ pc = "gather"
    /\ \E i \in 1..Len(tasks) : tasks[i].state = "failed"
    /\ tasks' = [i \in 1..Len(tasks) |->
                    IF tasks[i].state \in {"waiting", "connected"}
                    THEN [tasks[i] EXCEPT !.state = "cancelled"]
                    ELSE tasks[i]]
    /\ net' = [net EXCEPT !.batch_fail = @ + 1]
    /\ exc' = Some([acc |-> "members_profiles", kind |-> "ClientError"])
    /\ pc' = "idle"
    /\ UNCHANGED <<gw2mists, stable, reread, gw2, headers, requests, run>>

\* every task is done: gather returns the results in task order and
\* members_profiles keeps them by name
GatherReturn ==
    /\ pc = "gather"
    /\ \A i \in 1..Len(tasks) : tasks[i].state = "done"
    /\ gw2mists' = [gw2mists EXCEPT !._members_profiles =
           Some(members_profiles_dict([i \in 1..Len(tasks) |-> tasks[i].result[1]]))]
    /\ net' = [net EXCEPT !.batch_ok = @ + 1]
    /\ pc' = "idle"
    /\ UNCHANGED <<tasks, exc, stable, reread, gw2, headers, requests, run>>

NextBatch ==
    \/ Begin_members_profiles
    \/ \E i \in 1..Len(tasks) : Connect(i)
    \/ \E i \in 1..Len(tasks) : Respond(i)
    \/ \E i \in 1..Len(tasks) : Fail(i)
    \/ GatherRaise
    \/ GatherReturn

SpecBatch == InitBatch /\ [][NextBatch]_vars

\* the event loop runs every task that can take a step, and every request
\* issued is answered or fails
SpecBatchFair ==
    /\ SpecBatch
    /\ WF_vars(\E i \in 1..Len(tasks) : Connect(i))
    /\ WF_vars(\E i \in 1..Len(tasks) : Respond(i) \/ Fail(i))
    /\ WF_vars(GatherRaise)
    /\ WF_vars(GatherReturn)

(***************************************************************************)
(* Claims about the fan-out specification.                                 *)
(***************************************************************************)
SomeFailed == \E i \in 1..Len(tasks) : tasks[i].state = "failed"
AllIssued == \A i \in 1..Len(tasks) : tasks[i].issued

\* C5: while a batch runs and after one in which a request failed,
\* members_profiles holds no mapping, and the read raised; a mapping that is
\* held comes from a batch in which every request succeeded and has one entry
\* per name of registered_members, keyed by that name.
C5_AllOrNothing ==
    LET mp == gw2mists._members_profiles IN
    /\ pc = "gather" => mp = None
    /\ (pc = "idle" /\ SomeFailed) =>
           /\ mp = None
           /\ exc = Some([acc |-> "members_profiles", kind |-> "ClientError"])
    /\ mp # None =>
           /\ \A i \in 1..Len(tasks) : tasks[i].state = "done"
           /\ Keys(mp[1]) = gw2mists._registered_members[1]
           /\ Len(mp[1]) = Cardinality(gw2mists._registered_members[1])
           /\ \A k \in 1..Len(mp[1]) :
                  mp[1][k][2].name = mp[1][k][1] /\ mp[1][k][2] = tasks[k].result[1]

\* a batch of three has ended: the request at position 2 failed, the other
\* two succeeded, and the read raised
C5_Witness ==
    /\ pc = "idle" /\ Len(tasks) = 3
    /\ tasks[1].state = "done" /\ tasks[2].state = "failed" /\ tasks[3].state = "done"
    /\ exc # None

ConnectionsBounded == Cardinality(Connected) <= OPEN_CONNECTIONS_LIMIT

TopProfiles ==
    {p \in GuildProfiles(MaxProfiles) :
        /\ p.display_roster /\ p.team_id = 7
        /\ \A x \in Range(p.member[1]) : x.team_id = 7}

\* the instance after members_profiles has returned: any roster, any answers
\* to the batch, any order of the names
InitTop ==
    /\ \E p \in TopProfiles :
       \E resp \in [NamesUpTo(MaxProfiles) -> {Some(s) : s \in StatRecords}] :
       \E order \in Perms(NamesUpTo(MaxProfiles)) :
           gw2mists = members_profiles(
                          [obj |-> [NewGuild EXCEPT !._profile = Some(p)], net |-> NoFetches],
                          [guild |-> None, resp |-> resp, order |-> order]).h.obj
    /\ net = [NoFetches EXCEPT !.guild_ok = 1, !.batch_ok = 1]
    /\ exc = None
    /\ stable = TRUE
    /\ reread = FALSE
    /\ pc = "idle"
    /\ tasks = <<>>
    /\ gw2 = NoSources
    /\ headers = NoHeaders
    /\ requests = {}
    /\ run = NoRun

NextTop ==
    \/ Get_top_week
    \/ Get_inactive_members
    \/ Get_members_profiles

SpecTop == InitTop /\ [][NextTop]_vars

\* the position of key k in dict d
Position(d, k) == CHOOSE i \in 1..Len(d) : d[i][1] = k

\* C10: for every statistic the leaderboard of top_week has at most
\* TOP_STATS_MEMBERS entries, each the (name, value) of a distinct member of
\* members_profiles, by value descending and, among equal values, in the order
\* of members_profiles; no member left out has a greater value than one
\* listed, and none is left out while the leaderboard is not full.
C10_TopWeek ==
    LET mp == gw2mists._members_profiles[1]
        tw == gw2mists._top_week[1]
    IN (gw2mists._top_week # None /\ gw2mists._members_profiles # None) =>
       \A k \in 1..Len(MEMBER_STATS_LIST) :
           LET stat == MEMBER_STATS_LIST[k]
               top == DictGet(tw, stat)
               listed == {top[i][1] : i \in 1..Len(top)}
           IN /\ stat \in Keys(tw)
              /\ Len(top) = Min(Len(mp), TOP_STATS_MEMBERS)
              /\ Cardinality(listed) = Len(top)
              /\ \A i \in 1..Len(top) :
                     /\ top[i][1] \in Keys(mp)
                     /\ top[i][2] = DictGet(mp, top[i][1]).stats[stat]
              /\ \A i, j \in 1..Len(top) : i < j =>
                     \/ top[i][2] > top[j][2]
                     \/ /\ top[i][2] = top[j][2]
                        /\ Position(mp, top[i][1]) < Position(mp, top[j][1])
              /\ \A n \in Keys(mp) \ listed : \A i \in 1..Len(top) :
                     DictGet(mp, n).stats[stat] <= top[i][2]

\* top_week has been read with more members than a leaderboard holds, two of
\* them listed with equal kills and one with fewer kills left out
C10_Witness ==
    /\ gw2mists._top_week # None /\ gw2mists._members_profiles # None
    /\ Len(gw2mists._members_profiles[1]) > TOP_STATS_MEMBERS
    /\ LET top == DictGet(gw2mists._top_week[1], "kills") IN
       /\ Len(top) = TOP_STATS_MEMBERS
       /\ top[1][2] = top[2][2]
       /\ \E i \in 1..Len(gw2mists._members_profiles[1]) :
              gw2mists._members_profiles[1][i][2].stats["kills"] < top[1][2]

(***************************************************************************)
(* The authoritative source: GW2_API_KEY and GW2_GUILD. API_HEADERS is a   *)
(* dict of the class, shared by its instances: headers.GW2_API_KEY and     *)
(* headers.GW2_GUILD are its "authorization" entries. The heap of these    *)
(* operators is h = [obj, headers, requests]: the fields of the instance,  *)
(* the two class dicts, the requests issued so far.                        *)
(***************************************************************************)
Slots == {"guild", "alliance"}
ApiKeys == {"K1", "K2"}
\* "permissions" of GET /v2/tokeninfo
PermissionSets == {{"account", "guilds"}, {"account", "characters"}}
\* GET /v2/guild/{gid}/members
Rosters ==
    { <<>>,
      << [name |-> "A", wvw_member |-> TRUE, rank |-> "Leader"],
         [name |-> "B", wvw_member |-> FALSE, rank |-> "Member"] >> }
\* GET /v2/guild/{gid}
Infos == {[tag |-> "TAG"]}
\* GET /v2/guild/{gid}/ranks
RankLists == {<< [id |-> "Leader"], [id |-> "Member"] >>}

Bearer(key) == "Bearer " \o key

Request(source, url, authorization) ==
    [source |-> source, url |-> url, authorization |-> authorization]

\* GW2_API_KEY.__init__: the key goes into the class's headers
GW2_API_KEY_init(h, api_key) ==
    [h EXCEPT !.obj.api_key = Some(api_key), !.obj._data = None,
              !.headers.GW2_API_KEY = Some(Bearer(api_key))]

\* GW2_API_KEY.data: in, the answer to GET /v2/tokeninfo (None: it fails)
GW2_API_KEY_data(h, source, in) ==
    IF h.obj._data = None
    THEN LET sent == [h EXCEPT
                 !.requests = @ \cup {Request(source, "/v2/tokeninfo", h.headers.GW2_API_KEY)},
                 !.obj.introspections = @ + 1]
         IN IF in = None THEN Raise(sent, "ClientError")
            ELSE LET d == [key |-> h.obj.api_key[1], permissions |-> in[1]] IN
                 Ok([sent EXCEPT !.obj._data = Some(d)], d)
    ELSE Ok(h, h.obj._data[1])

GW2_API_KEY_key(h, source, in) ==
    LET d == GW2_API_KEY_data(h, source, in) IN
    IF d.exc # None THEN d ELSE Ok(d.h, d.val.key)

GW2_API_KEY_permissions(h, source, in) ==
    LET d == GW2_API_KEY_data(h, source, in) IN
    IF d.exc # None THEN d ELSE Ok(d.h, d.val.permissions)

\* variant of GW2_GUILD_init: the permissions are not looked at
GW2_GUILD_init_unchecked(h, source, api_key, in) ==
    LET k == GW2_API_KEY_init(h, api_key)
        p == GW2_API_KEY_permissions(k, source, in)
    IN IF p.exc # None THEN Raise([p.h EXCEPT !.obj.status = "ClientError"], "ClientError")
       ELSE LET y == GW2_API_KEY_key(p.h, source, in) IN
            Ok([y.h EXCEPT !.headers.GW2_GUILD = Some(Bearer(y.val)),
                           !.obj.status = "ok"], None)

\* GW2_GUILD.__init__; status tells how it ended ("ok", or the exception), and
\* error holds what the ValueError names
GW2_GUILD_init(h, source, api_key, in) ==
    LET k == GW2_API_KEY_init(h, api_key)
        p == GW2_API_KEY_permissions(k, source, in)
    IN IF p.exc # None THEN Raise([p.h EXCEPT !.obj.status = "ClientError"], "ClientError")
       ELSE IF "guilds" \notin p.val
       THEN LET q == GW2_API_KEY_permissions(p.h, source, in) IN
            Raise([q.h EXCEPT !.obj.status = "ValueError",
                              !.obj.error = Some([missing |-> "guilds", granted |-> q.val])],
                  "ValueError")
       ELSE LET y == GW2_API_KEY_key(p.h, source, in) IN
            Ok([y.h EXCEPT !.headers.GW2_GUILD = Some(Bearer(y.val)),
                           !.obj.status = "ok"], None)

\* GW2_GUILD.arequest: the session is made with the class's headers
arequest(h, source, url, in) ==
    LET sent == [h EXCEPT !.requests = @ \cup {Request(source, url, h.headers.GW2_GUILD)}] IN
    IF in = None THEN Raise(sent, "ClientError") ELSE Ok(sent, in[1])

GW2_GUILD_profile(h, source, in) ==
    IF h.obj._profile = None
    THEN LET r == arequest(h, source, "/v2/guild/{gid}/members", in) IN
         IF r.exc # None THEN r
         ELSE Ok([r.h EXCEPT !.obj._profile = Some(r.val)], r.val)
    ELSE Ok(h, h.obj._profile[1])

GW2_GUILD_info(h, source, in) ==
    IF h.obj._info = None
    THEN LET r == arequest(h, source, "/v2/guild/{gid}", in) IN
         IF r.exc # None THEN r
         ELSE Ok([r.h EXCEPT !.obj._info = Some(r.val)], r.val)
    ELSE Ok(h, h.obj._info[1])

GW2_GUILD_ranks(h, source, in) ==
    IF h.obj._ranks = None
    THEN LET r == arequest(h, source, "/v2/guild/{gid}/ranks", in) IN
         IF r.exc # None THEN r
         ELSE Ok([r.h EXCEPT !.obj._ranks = Some(r.val)], r.val)
    ELSE Ok(h, h.obj._ranks[1])

GW2_GUILD_members(h, source, in) ==
    IF h.obj._members = None
    THEN LET p == GW2_GUILD_profile(h, source, in) IN
         IF p.exc # None THEN p
         ELSE LET v == {x.name : x \in Range(p.val)} IN
              Ok([p.h EXCEPT !.obj._members = Some(v)], v)
    ELSE Ok(h, h.obj._members[1])

GW2_GUILD_wvw_members(h, source, in) ==
    IF h.obj._wvw_members = None
    THEN LET p == GW2_GUILD_profile(h, source, in) IN
         IF p.exc # None THEN p
         ELSE LET v == {x.name : x \in {y \in Range(p.val) : y.wvw_member}} IN
              Ok([p.h EXCEPT !.obj._wvw_members = Some(v)], v)
    ELSE Ok(h, h.obj._wvw_members[1])

(***************************************************************************)
(* The authoritative specification: two GW2_GUILD instances (the guild's   *)
(* and the alliance's), constructed and read in any order.                 *)
(***************************************************************************)
Heap(source) == [obj |-> gw2[source], headers |-> headers, requests |-> requests]

\* the read or construction ended as r; gw2_fail counts the failed requests
Result(source, r) ==
    /\ gw2' = [gw2 EXCEPT ![source] = r.h.obj]
    /\ headers' = r.h.headers
    /\ requests' = r.h.requests
    /\ net' = IF r.exc = Some("ClientError") THEN [net EXCEPT !.gw2_fail = @ + 1] ELSE net
    /\ net'.gw2_fail <= MaxFailures
    /\ UNCHANGED <<gw2mists, exc, stable, reread, pc, tasks, run>>

\* what api.guildwars2.com may answer to a request whose answers are in S
\* (None: the request fails)
Answers(S) == {None} \cup {Some(x) : x \in S}

\* GW2_GUILD(name, gid=gid, api_key=api_key)
Construct(source) ==
    /\ gw2[source].status = "none"
    /\ \E api_key \in ApiKeys :
       \E in \in Answers(PermissionSets) :
           Result(source, GW2_GUILD_init(Heap(source), source, api_key, in))

\* a read of a property of the instance in slot source, that ends as r
Read(source, r) ==
    /\ gw2[source].status = "ok"
    /\ Result(source, r)

Read_profile(source) ==
    \E in \in Answers(Rosters) : Read(source, GW2_GUILD_profile(Heap(source), source, in))
Read_info(source) ==
    \E in \in Answers(Infos) : Read(source, GW2_GUILD_info(Heap(source), source, in))
Read_ranks(source) ==
    \E in \in Answers(RankLists) : Read(source, GW2_GUILD_ranks(Heap(source), source, in))
Read_members(source) ==
    \E in \in Answers(Rosters) : Read(source, GW2_GUILD_members(Heap(source), source, in))
Read_wvw_members(source) ==
    \E in \in Answers(Rosters) : Read(source, GW2_GUILD_wvw_members(Heap(source), source, in))

InitGW2 ==
    /\ gw2mists = NewGuild
    /\ net = NoFetches
    /\ exc = None
    /\ stable = TRUE
    /\ reread = FALSE
    /\ pc = "idle"
    /\ tasks = <<>>
    /\ gw2 = NoSources
    /\ headers = NoHeaders
    /\ requests = {}
    /\ run = NoRun

NextGW2 ==
    \E source \in Slots :
        \/ Construct(source)
        \/ Read_profile(source)
        \/ Read_info(source)
        \/ Read_ranks(source)
        \/ Read_members(source)
        \/ Read_wvw_members(source)

SpecGW2 == InitGW2 /\ [][NextGW2]_vars

GuildScoped == {"/v2/guild/{gid}/members", "/v2/guild/{gid}", "/v2/guild/{gid}/ranks"}

\* C6: a construction introspects its token once; without the guilds scope it
\* ends in the ValueError that names the scope and lists the granted ones; a
\* guild-scoped request comes only from a source whose token was introspected
\* and has the scope.
C6_ScopeChecked ==
    \A s \in Slots :
        /\ gw2[s].introspections = IF gw2[s].status = "none" THEN 0 ELSE 1
        /\ gw2[s].status = "ValueError" <=>
               (gw2[s]._data # None /\ "guilds" \notin gw2[s]._data[1].permissions)
        /\ gw2[s].status = "ValueError" =>
               gw2[s].error = Some([missing |-> "guilds",
                                    granted |-> gw2[s]._data[1].permissions])
        /\ \A r \in requests : (r.source = s /\ r.url \in GuildScoped) =>
               /\ gw2[s].status = "ok"
               /\ "guilds" \in gw2[s]._data[1].permissions
               /\ \E t \in requests : t.source = s /\ t.url = "/v2/tokeninfo"

\* one construction failed for the missing scope, and the other source has
\* issued a guild-scoped request
C6_Witness ==
    \E s, t \in Slots :
        /\ gw2[s].status = "ValueError"
        /\ \E r \in requests : r.source = t /\ r.url \in GuildScoped

\* C8: every request of a source carries the bearer token the source was
\* constructed with.
C8_OwnToken ==
    \A r \in requests : r.authorization = Some(Bearer(gw2[r.source].api_key[1]))

(***************************************************************************)
(* The run specification: one run of report(), with --only-guild or with   *)
(* --only-alliance, as the sequence of its reports. A report of the public *)
(* source works on a GW2MISTS_GUILD of its own, which gw2mists and net     *)
(* hold when the report returns; run.log has one entry per report made.    *)
(***************************************************************************)
\* profile["alliance"]["guilds"] of the alliance's public profile
SubGuilds == <<"S1", "S2", "S3">>
GuildLists == {SubSeq(SubGuilds, 1, k) : k \in 0..MaxGuilds}

\* what gw2mists.com may answer during one report, to a fresh instance
FreshInputs(n) ==
    [ guild : Answers(GuildProfiles(n)),
      resp  : {[x \in NamesUpTo(n) |-> IF x \in F THEN None ELSE Some(ServerStats(x))] :
                  F \in SUBSET NamesUpTo(n)},
      order : Perms(NamesUpTo(n)) ]

\* report_guild_gw2mists up to its "if alliance:" (stats is true at both call
\* sites; the other flags only choose between names and their number): val is
\* "skipped" after the warning of a hidden roster, "reported" otherwise
report_guild_gw2mists(in) ==
    LET p == profile([obj |-> NewGuild, net |-> NoFetches], in) IN
    IF p.exc # None THEN p
    ELSE IF ~p.val.display_roster THEN Ok(p.h, "skipped")
    ELSE LET w == wrongteam_members(p.h, in) IN
         IF w.exc # None THEN w
         ELSE LET u == unregistered_members(w.h, in) IN
              IF u.exc # None THEN u
              ELSE LET i == inactive_members(u.h, in) IN
                   IF i.exc # None THEN i
                   ELSE LET t == top_week(i.h, in) IN
                        IF t.exc # None THEN t ELSE Ok(t.h, "reported")

\* the log entry of a report of the public source that ended as r
Entry(guild, r) ==
    [ guild |-> guild, source |-> "gw2mists",
      outcome |-> IF r.exc = None THEN r.val ELSE r.exc[1],
      hidden |-> r.h.obj._profile # None /\ ~r.h.obj._profile[1].display_roster,
      fetched |-> r.h.net.batch_ok + r.h.net.batch_fail ]

\* the instances of the authoritative source and their class's headers, as
\* one value that the reports below hand on
Sources == [gw2 |-> gw2, headers |-> headers, requests |-> requests]
Of(S, source) == [obj |-> S.gw2[source], headers |-> S.headers, requests |-> S.requests]
Store(S, source, r) ==
    [ S |-> [gw2 |-> [S.gw2 EXCEPT ![source] = r.h.obj],
             headers |-> r.h.headers, requests |-> r.h.requests],
      exc |-> r.exc ]

\* what api.guildwars2.com may answer to the requests of one source
SourceAnswers ==
    [ token : Answers(PermissionSets), members : Answers(Rosters),
      info : Answers(Infos), ranks : Answers(RankLists) ]

\* the second half of report_alliance: GW2_GUILD(...), members, profile
report_alliance_gw2(S, in) ==
    LET c == GW2_GUILD_init(Of(S, "alliance"), "alliance", "K2", in.alliance.token) IN
    IF c.exc # None THEN Store(S, "alliance", c)
    ELSE LET m == GW2_GUILD_members(c.h, "alliance", in.alliance.members) IN
         IF m.exc # None THEN Store(S, "alliance", m)
         ELSE Store(S, "alliance", GW2_GUILD_profile(m.h, "alliance", in.alliance.members))

\* report_guild_gw2 from the construction of gw2_alliance on; G is the state
\* the first half left
report_guild_gw2_alliance(G, in) ==
    LET c == GW2_GUILD_init(Of(G, "alliance"), "alliance", "K2", in.alliance.token) IN
    IF c.exc # None THEN Store(G, "alliance", c)
    ELSE LET m == GW2_GUILD_members(c.h, "alliance", in.alliance.members) IN
         IF m.exc # None THEN Store(G, "alliance", m)
         ELSE LET w == GW2_GUILD_wvw_members(m.h, "alliance", in.alliance.members) IN
              IF w.exc # None THEN Store(G, "alliance", w)
              ELSE Store(G, "alliance", GW2_GUILD_ranks(w.h, "alliance", in.alliance.ranks))

\* report_guild_gw2: GW2_GUILD(...), info, members, wvw_members, and with the
\* alliance's key the alliance's instance
report_guild_gw2(S, in) ==
    LET c == GW2_GUILD_init(Of(S, "guild"), "guild", "K1", in.guild.token) IN
    IF c.exc # None THEN Store(S, "guild", c)
    ELSE LET i == GW2_GUILD_info(c.h, "guild", in.guild.info) IN
         IF i.exc # None THEN Store(S, "guild", i)
         ELSE LET m == GW2_GUILD_members(i.h, "guild", in.guild.members) IN
              IF m.exc # None THEN Store(S, "guild", m)
              ELSE LET w == GW2_GUILD_wvw_members(m.h, "guild", in.guild.members)
                       G == Store(S, "guild", w)
                   IN IF w.exc # None \/ run.alliance_settings # "api_key" THEN G
                      ELSE report_guild_gw2_alliance(G.S, in)

\* a report of the public source, for guild, ends as r; then the run is at
\* next, with todo left of the alliance's guilds
Gw2mistsReported(guild, r, next, todo) ==
    /\ gw2mists' = r.h.obj
    /\ net' = r.h.net
    /\ run' = [run EXCEPT !.log = Append(@, Entry(guild, r)), !.pc = next, !.todo = todo]
    /\ UNCHANGED <<exc, stable, reread, pc, tasks, gw2, headers, requests>>

\* report_guild: its call of report_guild_gw2mists
Gw2mistsGuild(report(_)) ==
    /\ run.pc = "report_guild"
    /\ \E in \in FreshInputs(MaxRunMembers) :
           LET r == report(in) IN
           Gw2mistsReported("guild", r,
               IF r.exc # None THEN "raised" ELSE "report_guild_gw2", <<>>)

\* report_alliance: its call of report_guild_gw2mists(..., alliance=True), up
\* to the loop over the alliance's guilds. A hidden roster returns before
\* "if alliance:"; a guild that is no alliance raises ValueError.
Gw2mistsAlliance(report(_)) ==
    /\ run.pc = "report_alliance"
    /\ \E in \in FreshInputs(MaxRunMembers) :
           LET r == report(in)
               v == IF r.exc = None /\ r.val = "reported" /\ ~run.is_alliance
                    THEN Raise(r.h, "ValueError") ELSE r
           IN Gw2mistsReported("alliance", v,
                  IF v.exc # None THEN "raised"
                  ELSE IF v.val = "skipped" \/ run.guilds = <<>> THEN "report_alliance_gw2"
                  ELSE "guilds",
                  IF v.exc = None /\ v.val = "reported" THEN run.guilds ELSE <<>>)

\* one turn of "for guild in gw2mist_guild.profile["alliance"]["guilds"]"
Gw2mistsSubGuild(report(_)) ==
    /\ run.pc = "guilds"
    /\ \E in \in FreshInputs(MaxRunMembers) :
           LET r == report(in) IN
           Gw2mistsReported(Head(run.todo), r,
               IF r.exc # None THEN "raised"
               ELSE IF Tail(run.todo) = <<>> THEN "report_alliance_gw2" ELSE "guilds",
               IF r.exc # None THEN run.todo ELSE Tail(run.todo))

\* a report of the authoritative source, for guild, ends as r
Gw2Reported(guild, r) ==
    /\ gw2' = r.S.gw2
    /\ headers' = r.S.headers
    /\ requests' = r.S.requests
    /\ run' = [run EXCEPT
           !.log = Append(@, [guild |-> guild, source |-> "gw2",
                              outcome |-> IF r.exc = None THEN "reported" ELSE r.exc[1],
                              hidden |-> FALSE, fetched |-> 0]),
           !.pc = IF r.exc = None THEN "done" ELSE "raised"]
    /\ UNCHANGED <<gw2mists, net, exc, stable, reread, pc, tasks>>

Gw2Guild(report(_, _)) ==
    /\ run.pc = "report_guild_gw2"
    /\ \E in \in [guild : SourceAnswers, alliance : SourceAnswers] :
           Gw2Reported("guild", report(Sources, in))

Gw2Alliance(report(_, _)) ==
    /\ run.pc = "report_alliance_gw2"
    /\ \E in \in [alliance : SourceAnswers] :
           Gw2Reported("alliance", report(Sources, in))

Report_guild_gw2mists == Gw2mistsGuild(report_guild_gw2mists)
Report_guild_gw2 == Gw2Guild(report_guild_gw2)
Report_alliance_gw2mists == Gw2mistsAlliance(report_guild_gw2mists)
Report_alliance_guilds == Gw2mistsSubGuild(report_guild_gw2mists)
Report_alliance_gw2 == Gw2Alliance(report_alliance_gw2)

\* report(): settings.ini has the sections the run needs
Runs ==
    { [NoRun EXCEPT !.only = "guild", !.pc = "report_guild", !.alliance_settings = a] :
          a \in {"none", "no_api_key", "api_key"} }
    \cup
    { [NoRun EXCEPT !.only = "alliance", !.pc = "report_alliance",
                    !.alliance_settings = "api_key", !.is_alliance = b, !.guilds = g] :
          b \in BOOLEAN, g \in GuildLists }

InitRun ==
    /\ gw2mists = NewGuild
    /\ net = NoFetches
    /\ exc = None
    /\ stable = TRUE
    /\ reread = FALSE
    /\ pc = "idle"
    /\ tasks = <<>>
    /\ gw2 = NoSources
    /\ headers = NoHeaders
    /\ requests = {}
    /\ run \in Runs

NextRun ==
    \/ Report_guild_gw2mists
    \/ Report_guild_gw2
    \/ Report_alliance_gw2mists
    \/ Report_alliance_guilds
    \/ Report_alliance_gw2

SpecRun == InitRun /\ [][NextRun]_vars

\* the reports a run is to make: --only-guild, the guild's two; --only-alliance,
\* the alliance's two and the one of each guild of the alliance
Expected ==
    IF run.only = "guild" THEN {<<"guild", "gw2mists">>, <<"guild", "gw2">>}
    ELSE {<<"alliance", "gw2mists">>, <<"alliance", "gw2">>}
         \cup (IF run.is_alliance THEN {<<g, "gw2mists">> : g \in Range(run.guilds)} ELSE {})

Made == {<<e.guild, e.source>> : e \in {x \in Range(run.log) : x.outcome \in {"reported", "skipped"}}}

\* C11: a report that finds the roster hidden returns as skipped, having
\* fetched no member profile, and a run that no exception ended has made every
\* report it was to make, the skipped ones counted.
C11_HiddenRosterStopsNoReport ==
    /\ \A e \in Range(run.log) : e.hidden => (e.outcome = "skipped" /\ e.fetched = 0)
    /\ run.pc = "done" => Expected \subseteq Made

(***************************************************************************)
(* Claims about the accessor specification.                                *)
(***************************************************************************)
\* the roster of the cached profile (empty when the profile has no "member")
Roster ==
    IF gw2mists._profile = None \/ gw2mists._profile[1].member = None THEN {}
    ELSE Range(gw2mists._profile[1].member[1])

HiddenRoster == gw2mists._profile # None /\ ~gw2mists._profile[1].display_roster

\* C1: whatever properties have been read, the cached registered_members and
\* unregistered_members are disjoint, and together they are the cached members.
C1_RegisteredPartition ==
    LET reg == gw2mists._registered_members
        unreg == gw2mists._unregistered_members
        all == gw2mists._members
    IN /\ (reg # None /\ unreg # None) => reg[1] \cap unreg[1] = {}
       /\ (reg # None /\ unreg # None /\ all # None) => reg[1] \cup unreg[1] = all[1]

C1_Witness ==
    /\ gw2mists._registered_members # None /\ gw2mists._registered_members[1] # {}
    /\ gw2mists._unregistered_members # None /\ gw2mists._unregistered_members[1] # {}
    /\ gw2mists._members # None

\* C2: the cached wrongteam_members holds only registered members whose team
\* differs from the guild's: it is a subset of the cached registered_members and
\* shares no name with unregistered_members.
C2_WrongteamRegistered ==
    LET wrong == gw2mists._wrongteam_members
        reg == gw2mists._registered_members
        unreg == gw2mists._unregistered_members
    IN wrong # None =>
        /\ \A n \in wrong[1] : \E x \in Roster :
               x.name = n /\ x.registered = 1 /\ x.team_id # gw2mists._profile[1].team_id
        /\ reg # None => wrong[1] \subseteq reg[1]
        /\ unreg # None /\ wrong[1] \cap unreg[1] = {}

\* wrongteam_members has been derived from a roster with an unregistered
\* member of another team, and a registered one
C2_Witness ==
    /\ gw2mists._wrongteam_members # None /\ gw2mists._wrongteam_members[1] # {}
    /\ gw2mists._registered_members # None
    /\ \E x \in Roster : x.registered = 0 /\ x.team_id # gw2mists._profile[1].team_id

C4_FailedFetchLeavesNoCache ==
    (exc # None /\ exc[1].kind = "ClientError") => gw2mists[Field(exc[1].acc)] = None

C12_CurrentMatch ==
    LET cur == gw2mists._currentmatch_members
        reg == gw2mists._registered_members
        wrong == gw2mists._wrongteam_members
    IN cur # None =>
        /\ reg # None /\ wrong # None
        /\ cur[1] = reg[1] \ wrong[1]
        /\ cur[1] = {x.name : x \in {y \in Roster :
                         y.registered = 1 /\ y.team_id = gw2mists._profile[1].team_id}}

\* currentmatch_members has been derived from a roster with a registered
\* member on the guild's team and one on another team
C12_Witness ==
    /\ gw2mists._currentmatch_members # None /\ gw2mists._currentmatch_members[1] # {}
    /\ gw2mists._wrongteam_members # None /\ gw2mists._wrongteam_members[1] # {}

====
